---- MODULE Spec2Model ----
(***************************************************************************)
(* Model of lib/glib.py (MyPaint): the filename decoder                    *)
(* filename_to_unicode, the four user-directory getters built on it, and   *)
(* the start-up hook init_user_dir_caches.  The module is Python 2 code:   *)
(* `str` is the byte-string type and `unicode` the text type.              *)
(***************************************************************************)
EXTENDS Integers, Sequences, FiniteSets, TLC

\* ------------------------------------------------------------------ bounds
MaxLen == 2          \* longest byte string / text handed to filename_to_unicode
N_DIRECTORIES == 2   \* size of the GLib.UserDirectory enumeration in the model
MaxCalls == 2        \* number of init_user_dir_caches calls explored

\* ------------------------------------------------------------ value domain
\* Bytes the model draws from: '/', 'a', 0xA9 (continuation byte),
\* 0xC3 (2-byte lead), 0xE9 (3-byte lead; Latin-1 e-acute).
ByteValues == {47, 97, 169, 195, 233}
\* Code points the model draws text from: '/', 'a', U+00E9.
CodePoints == {47, 97, 233}

SeqsUpTo(S, n) == UNION {[1..k -> S] : k \in 0..n}

\* Python values: None, str (bytes) and unicode (text), tagged by type.
None == [type |-> "NoneType", data |-> <<>>]
Bytes(s) == [type |-> "str", data |-> s]
Text(s) == [type |-> "unicode", data |-> s]

IsAscii(s) == \A i \in 1..Len(s) : s[i] < 128

\* --------------------------------------------------------------- outcomes
\* The result of one call: a returned value or a raised exception, plus the
\* number of calls made to GLib.filename_to_utf8 on the way.
NoMsg == [fmt |-> "", arg |-> None]
Return(v, n) == [kind |-> "return", value |-> v, exc |-> "", msg |-> NoMsg, conv |-> n]
Raise(e, m, n) == [kind |-> "raise", value |-> None, exc |-> e, msg |-> m, conv |-> n]

\* ------------------------------------------------------------ UTF-8 codec
IsCont(b) == b >= 128 /\ b <= 191

\* Number of bytes of the UTF-8 sequence that starts at s[i]; 0 if the
\* bytes at i are not the start of a well-formed sequence.
SeqLenAt(s, i) ==
    LET b == s[i]
        has(n) == i + n - 1 <= Len(s) /\ \A j \in (i + 1)..(i + n - 1) : IsCont(s[j])
    IN  IF b < 128 THEN 1
        ELSE IF b >= 194 /\ b <= 223 THEN (IF has(2) THEN 2 ELSE 0)
        ELSE IF b >= 224 /\ b <= 239
             THEN (IF has(3) /\ (b # 224 \/ s[i + 1] >= 160) THEN 3 ELSE 0)
        ELSE IF b >= 240 /\ b <= 244
             THEN (IF has(4) /\ (b # 240 \/ s[i + 1] >= 144)
                             /\ (b # 244 \/ s[i + 1] <= 143) THEN 4 ELSE 0)
        ELSE 0

CodePointAt(s, i, n) ==
    IF n = 1 THEN s[i]
    ELSE IF n = 2 THEN (s[i] - 192) * 64 + (s[i + 1] - 128)
    ELSE IF n = 3 THEN (s[i] - 224) * 4096 + (s[i + 1] - 128) * 64 + (s[i + 2] - 128)
    ELSE (s[i] - 240) * 262144 + (s[i + 1] - 128) * 4096
         + (s[i + 2] - 128) * 64 + (s[i + 3] - 128)

RECURSIVE Utf8ValidFrom(_, _)
Utf8ValidFrom(s, i) ==
    IF i > Len(s) THEN TRUE
    ELSE LET n == SeqLenAt(s, i)
         IN  IF n = 0 THEN FALSE ELSE Utf8ValidFrom(s, i + n)

Utf8Valid(s) == Utf8ValidFrom(s, 1)

RECURSIVE Utf8DecodeFrom(_, _)
Utf8DecodeFrom(s, i) ==
    IF i > Len(s) THEN <<>>
    ELSE LET n == SeqLenAt(s, i)
         IN  <<CodePointAt(s, i, n)>> \o Utf8DecodeFrom(s, i + n)

\* The code points of a well-formed UTF-8 byte string.
Utf8Decode(s) == Utf8DecodeFrom(s, 1)

RECURSIVE Utf8Encode(_)
Utf8Encode(u) ==
    IF u = <<>> THEN <<>>
    ELSE LET c == Head(u)
         IN  (IF c < 128 THEN <<c>> ELSE <<192 + (c \div 64), 128 + (c % 64)>>)
             \o Utf8Encode(Tail(u))


\* ------------------------------------------------------------------ state
VARIABLES
    platform,     \* sys.platform
    fsenc,        \* the filename encoding GLib assumes (G_FILENAME_ENCODING)
    userDirs,     \* what g_get_user_{config,data,cache}_dir() answer
    specialDirs,  \* what g_get_user_special_dir(d_id) answers
    pc,           \* position of the running init_user_dir_caches call
    idx,          \* index of the lookup the call is at
    pending,      \* value of the last lookup, not yet logged
    log,          \* logger.debug entries emitted by the current call
    lookups,      \* getters called by the current call, in order
    ncalls,       \* number of init_user_dir_caches calls started
    first,        \* what the first finished init_user_dir_caches call did
    last          \* the last direct call of a getter or of filename_to_unicode

vars == <<platform, fsenc, userDirs, specialDirs, pc, idx, pending, log,
          lookups, ncalls, first, last>>

Platforms == {"win32", "linux2"}
Encodings == {"UTF-8", "ISO-8859-1"}
UserDirKinds == {"config", "data", "cache"}

\* A loop that starts at 1 instead of 0.
range_FromOne(n) == [i \in 1..(n - 1) |-> i]

\* Python's range(n): 0, 1, ..., n-1 in order.
range(n) == [i \in 1..n |-> i - 1]

\* The members of GLib.UserDirectory.
SpecialIds == 0..(N_DIRECTORIES - 1)

\* Answers of the GLib directory primitives: no directory, an empty path,
\* an ASCII path, a path with a byte that is not UTF-8 (Latin-1 e-acute).
DirAnswers == {None, Bytes(<<>>), Bytes(<<47, 97>>), Bytes(<<233>>)}

\* Arguments handed to filename_to_unicode: None, byte strings, text.
Inputs == {None} \cup {Bytes(s) : s \in SeqsUpTo(ByteValues, MaxLen)}
                 \cup {Text(u) : u \in SeqsUpTo(CodePoints, MaxLen)}

\* ------------------------------------------------------- Python built-ins
MsgMustBeBytes == "Argument must be bytes"
MsgGLibFailed == "GLib failed to convert %r to a UTF-8 string. Consider setting G_FILENAME_ENCODING if your file system's filename encoding scheme is not UTF-8."
MsgCtorArgs == "function takes exactly 5 arguments (1 given)"
MsgCantDecode == "'utf8' codec can't decode bytes"
MsgCantEncode == "'ascii' codec can't encode characters"
MsgNoDecode == "'NoneType' object has no attribute 'decode'"

\* x.decode("utf-8") in Python 2.  A str is decoded strictly.  A unicode is
\* first encoded with the default codec (ascii), then decoded.
decode(x, n) ==
    IF x.type = "str"
    THEN IF Utf8Valid(x.data)
         THEN Return(Text(Utf8Decode(x.data)), n)
         ELSE Raise("UnicodeDecodeError", [fmt |-> MsgCantDecode, arg |-> x], n)
    ELSE IF x.type = "unicode"
    THEN IF IsAscii(x.data)
         THEN Return(Text(Utf8Decode(x.data)), n)
         ELSE Raise("UnicodeEncodeError", [fmt |-> MsgCantEncode, arg |-> x], n)
    ELSE Raise("AttributeError", [fmt |-> MsgNoDecode, arg |-> None], n)

\* raise UnicodeDecodeError(*args): the constructor takes exactly five
\* arguments (encoding, object, start, end, reason) and raises TypeError
\* itself for any other number.
RaiseUnicodeDecodeError(args, n) ==
    IF Len(args) = 5
    THEN Raise("UnicodeDecodeError", args[1], n)
    ELSE Raise("TypeError", [fmt |-> MsgCtorArgs, arg |-> None], n)

\* GLib.filename_to_utf8(opsysstring, -1, 0, 0): converts from the filename
\* encoding to UTF-8; None when the bytes are not valid in that encoding.
filename_to_utf8(opsysstring) ==
    IF fsenc = "UTF-8"
    THEN IF Utf8Valid(opsysstring.data) THEN Bytes(opsysstring.data) ELSE None
    ELSE Bytes(Utf8Encode(opsysstring.data))

\* ---------------------------------------------------- filename_to_unicode
\* The isinstance check left out.
filename_to_unicode_NoTypeCheck(opsysstring) ==
    IF opsysstring = None THEN Return(None, 0)
    ELSE IF platform = "win32" THEN decode(opsysstring, 0)
    ELSE LET ustring == filename_to_utf8(opsysstring)
         IN  IF ustring = None
             THEN RaiseUnicodeDecodeError(
                      <<[fmt |-> MsgGLibFailed, arg |-> opsysstring]>>, 1)
             ELSE decode(ustring, 1)

\* The None check placed after the platform branch.
filename_to_unicode_LateNoneCheck(opsysstring) ==
    IF platform = "win32" THEN decode(opsysstring, 0)
    ELSE IF opsysstring = None THEN Return(None, 0)
    ELSE IF opsysstring.type # "str"
    THEN Raise("TypeError", [fmt |-> MsgMustBeBytes, arg |-> None], 0)
    ELSE LET ustring == filename_to_utf8(opsysstring)
         IN  IF ustring = None
             THEN RaiseUnicodeDecodeError(
                      <<[fmt |-> MsgGLibFailed, arg |-> opsysstring]>>, 1)
             ELSE decode(ustring, 1)

\* The platform test never true (a misspelt platform name).
filename_to_unicode_NoWin32(opsysstring) ==
    IF opsysstring = None THEN Return(None, 0)
    ELSE IF opsysstring.type # "str"
    THEN Raise("TypeError", [fmt |-> MsgMustBeBytes, arg |-> None], 0)
    ELSE LET ustring == filename_to_utf8(opsysstring)
         IN  IF ustring = None
             THEN RaiseUnicodeDecodeError(
                      <<[fmt |-> MsgGLibFailed, arg |-> opsysstring]>>, 1)
             ELSE decode(ustring, 1)

\* GLib's UTF-8 bytes returned as they are, without the final decode.
filename_to_unicode_NoDecode(opsysstring) ==
    IF opsysstring = None THEN Return(None, 0)
    ELSE IF platform = "win32" THEN decode(opsysstring, 0)
    ELSE IF opsysstring.type # "str"
    THEN Raise("TypeError", [fmt |-> MsgMustBeBytes, arg |-> None], 0)
    ELSE LET ustring == filename_to_utf8(opsysstring)
         IN  IF ustring = None
             THEN RaiseUnicodeDecodeError(
                      <<[fmt |-> MsgGLibFailed, arg |-> opsysstring]>>, 1)
             ELSE Return(ustring, 1)

filename_to_unicode(opsysstring) ==
    IF opsysstring = None THEN Return(None, 0)
    ELSE IF platform = "win32" THEN decode(opsysstring, 0)
    ELSE IF opsysstring.type # "str"
    THEN Raise("TypeError", [fmt |-> MsgMustBeBytes, arg |-> None], 0)
    ELSE LET ustring == filename_to_utf8(opsysstring)
         IN  IF ustring = None
             THEN RaiseUnicodeDecodeError(
                      <<[fmt |-> MsgGLibFailed, arg |-> opsysstring]>>, 1)
             ELSE decode(ustring, 1)

\* ---------------------------------------------------------------- getters
get_user_config_dir == filename_to_unicode(userDirs["config"])

\* The GLib answer handed back without conversion.
get_user_data_dir_Raw == Return(userDirs["data"], 0)

get_user_data_dir == filename_to_unicode(userDirs["data"])

get_user_cache_dir == filename_to_unicode(userDirs["cache"])

\* The wrong GLib primitive called.
get_user_special_dir_Config(d_id) == filename_to_unicode(userDirs["config"])

get_user_special_dir(d_id) == filename_to_unicode(specialDirs[d_id])

\* --------------------------------------------------- init_user_dir_caches
\* The lookups of one call, in program order: <<getter, d_id>>.
Order ==
    <<<<"get_user_config_dir", -1>>, <<"get_user_data_dir", -1>>,
      <<"get_user_cache_dir", -1>>>>
    \o [i \in 1..Len(range(N_DIRECTORIES)) |->
           <<"get_user_special_dir", range(N_DIRECTORIES)[i]>>]

\* What GLib answers for a lookup, and what the getter makes of it.
Answer(k) ==
    IF k[1] = "get_user_config_dir" THEN userDirs["config"]
    ELSE IF k[1] = "get_user_data_dir" THEN userDirs["data"]
    ELSE IF k[1] = "get_user_cache_dir" THEN userDirs["cache"]
    ELSE specialDirs[k[2]]

Getter(k) ==
    IF k[1] = "get_user_config_dir" THEN get_user_config_dir
    ELSE IF k[1] = "get_user_data_dir" THEN get_user_data_dir
    ELSE IF k[1] = "get_user_cache_dir" THEN get_user_cache_dir
    ELSE get_user_special_dir(k[2])

\* logger.debug("Init g_get_user_..._dir(...): %r", ...)
LogEntry(k, v) == [fn |-> k[1], d_id |-> k[2], value |-> v]

NoCall == [fn |-> "", d_id |-> -1, arg |-> None, outcome |-> Return(None, 0)]
NoTrace == [set |-> FALSE, end |-> "", lookups |-> <<>>, log |-> <<>>,
            getters |-> <<>>]
Trace(end, lk, lg) ==
    [set |-> TRUE, end |-> end, lookups |-> lk, log |-> lg,
     getters |-> [i \in 1..Len(Order) |-> Getter(Order[i])]]

Idle == pc \in {"idle", "returned", "raised"}

\* A guard that makes every call after the first a no-op.
InitCall_Once ==
    /\ Idle
    /\ ncalls < MaxCalls
    /\ pc' = IF ncalls > 0 THEN "returned" ELSE "lookup"
    /\ idx' = 1
    /\ log' = <<>>
    /\ lookups' = <<>>
    /\ ncalls' = ncalls + 1
    /\ last' = NoCall
    /\ UNCHANGED <<platform, fsenc, userDirs, specialDirs, pending, first>>

\* init_user_dir_caches() is entered.
InitCall ==
    /\ Idle
    /\ ncalls < MaxCalls
    /\ pc' = "lookup"
    /\ idx' = 1
    /\ log' = <<>>
    /\ lookups' = <<>>
    /\ ncalls' = ncalls + 1
    /\ last' = NoCall
    /\ UNCHANGED <<platform, fsenc, userDirs, specialDirs, pending, first>>

\* The getter's exception swallowed, the loop carrying on with None.
Lookup_Swallow ==
    /\ pc = "lookup"
    /\ idx <= Len(Order)
    /\ LET k == Order[idx]
           o == Getter(k)
       IN  /\ lookups' = Append(lookups, k)
           /\ pc' = "log"
           /\ pending' = o.value
           /\ first' = first
    /\ UNCHANGED <<platform, fsenc, userDirs, specialDirs, idx, log, ncalls, last>>

\* The argument of the next logger.debug is evaluated: the getter is called.
\* An exception it raises leaves init_user_dir_caches.
Lookup ==
    /\ pc = "lookup"
    /\ idx <= Len(Order)
    /\ LET k == Order[idx]
           o == Getter(k)
       IN  /\ lookups' = Append(lookups, k)
           /\ IF o.kind = "raise"
              THEN /\ pc' = "raised"
                   /\ pending' = None
                   /\ first' = IF first.set THEN first
                               ELSE Trace("raised", lookups', log)
              ELSE /\ pc' = "log"
                   /\ pending' = o.value
                   /\ first' = first
    /\ UNCHANGED <<platform, fsenc, userDirs, specialDirs, idx, log, ncalls, last>>

\* logger.debug(...) is called with the looked-up value.
LogDebug ==
    /\ pc = "log"
    /\ log' = Append(log, LogEntry(Order[idx], pending))
    /\ idx' = idx + 1
    /\ pending' = None
    /\ pc' = "lookup"
    /\ UNCHANGED <<platform, fsenc, userDirs, specialDirs, lookups, ncalls,
                   first, last>>

\* The loop is over: init_user_dir_caches returns.
InitReturn ==
    /\ pc = "lookup"
    /\ idx > Len(Order)
    /\ pc' = "returned"
    /\ first' = IF first.set THEN first ELSE Trace("returned", lookups, log)
    /\ UNCHANGED <<platform, fsenc, userDirs, specialDirs, idx, pending, log,
                   lookups, ncalls, last>>

\* ------------------------------------------------------------ direct calls
CallGetter(k) ==
    /\ Idle
    /\ last' = [fn |-> k[1], d_id |-> k[2], arg |-> Answer(k), outcome |-> Getter(k)]
    /\ UNCHANGED <<platform, fsenc, userDirs, specialDirs, pc, idx, pending,
                   log, lookups, ncalls, first>>

GetUserConfigDir == CallGetter(<<"get_user_config_dir", -1>>)

GetUserDataDir == CallGetter(<<"get_user_data_dir", -1>>)

GetUserCacheDir == CallGetter(<<"get_user_cache_dir", -1>>)

GetUserSpecialDir == \E d_id \in SpecialIds : CallGetter(<<"get_user_special_dir", d_id>>)

FilenameToUnicode ==
    \E x \in Inputs :
        /\ last' = [fn |-> "filename_to_unicode", d_id |-> -1, arg |-> x,
                    outcome |-> filename_to_unicode(x)]
        /\ UNCHANGED <<platform, fsenc, userDirs, specialDirs, pc, idx,
                       pending, log, lookups, ncalls, first>>

\* --------------------------------------------------------- specifications
InitCommon ==
    /\ platform \in Platforms
    /\ fsenc \in Encodings
    /\ pc = "idle"
    /\ idx = 1
    /\ pending = None
    /\ log = <<>>
    /\ lookups = <<>>
    /\ ncalls = 0
    /\ first = NoTrace
    /\ last = NoCall

\* The directory getters and init_user_dir_caches, for every platform answer.
Init ==
    /\ InitCommon
    /\ userDirs \in [UserDirKinds -> DirAnswers]
    /\ specialDirs \in [SpecialIds -> DirAnswers]

Next ==
    \/ InitCall
    \/ Lookup
    \/ LogDebug
    \/ InitReturn
    \/ GetUserConfigDir
    \/ GetUserDataDir
    \/ GetUserCacheDir
    \/ GetUserSpecialDir

Spec == Init /\ [][Next]_vars

\* filename_to_unicode on its own, for every argument.
InitConv ==
    /\ InitCommon
    /\ userDirs = [d \in UserDirKinds |-> None]
    /\ specialDirs = [d \in SpecialIds |-> None]

NextConv == FilenameToUnicode

SpecConv == InitConv /\ [][NextConv]_vars

\* ------------------------------------------------------------ properties
Converted == last.fn = "filename_to_unicode"

ConfigDataCache == {"get_user_config_dir", "get_user_data_dir", "get_user_cache_dir"}

\* The lookups one full call of init_user_dir_caches is expected to make.
ExpectedLookups ==
    <<<<"get_user_config_dir", -1>>, <<"get_user_data_dir", -1>>,
      <<"get_user_cache_dir", -1>>>>
    \o [i \in 1..N_DIRECTORIES |-> <<"get_user_special_dir", i - 1>>]

IsPrefix(p, q) == Len(p) <= Len(q) /\ \A i \in 1..Len(p) : p[i] = q[i]

\* C1: off win32, when GLib.filename_to_utf8 returns None for a byte string,
\* filename_to_unicode raises UnicodeDecodeError whose message carries the
\* offending bytes and the G_FILENAME_ENCODING hint.
C1_DecodingErrorOnFailure ==
    (Converted /\ platform # "win32" /\ last.arg.type = "str"
        /\ filename_to_utf8(last.arg) = None)
    => /\ last.outcome.kind = "raise"
       /\ last.outcome.exc = "UnicodeDecodeError"
       /\ last.outcome.msg = [fmt |-> MsgGLibFailed, arg |-> last.arg]

\* C2 as stated: on every platform, a text argument makes
\* filename_to_unicode raise TypeError.
C2_TypeErrorEverywhere ==
    (Converted /\ last.arg.type = "unicode")
    => (last.outcome.kind = "raise" /\ last.outcome.exc = "TypeError")

\* C2: off win32, a text argument makes filename_to_unicode raise the
\* "Argument must be bytes" TypeError, before GLib is called.
C2_TypeErrorOffWin32 ==
    (Converted /\ platform # "win32" /\ last.arg.type = "unicode")
    => last.outcome = Raise("TypeError", [fmt |-> MsgMustBeBytes, arg |-> None], 0)

C2_Witness ==
    /\ Converted
    /\ platform = "linux2"
    /\ last.arg = Text(<<47, 97>>)
    /\ last.outcome.exc = "TypeError"

\* C3: filename_to_unicode(None) returns None on every platform, without
\* raising and without calling GLib.filename_to_utf8.
C3_NoneReturnsNone ==
    (Converted /\ last.arg = None) => last.outcome = Return(None, 0)

C3_Witness ==
    /\ Converted
    /\ last.arg = None
    /\ platform = "win32"
    /\ last.outcome.kind = "return"

\* C4: on win32, filename_to_unicode of a byte string is its plain UTF-8
\* decoding (the text if well-formed, UnicodeDecodeError otherwise), and
\* GLib.filename_to_utf8 is not called.
C4_Win32IsUtf8Decode ==
    (Converted /\ platform = "win32" /\ last.arg.type = "str")
    => /\ last.outcome.conv = 0
       /\ Utf8Valid(last.arg.data)
            => /\ last.outcome.kind = "return"
               /\ last.outcome.value = Text(Utf8Decode(last.arg.data))
       /\ ~Utf8Valid(last.arg.data)
            => /\ last.outcome.kind = "raise"
               /\ last.outcome.exc = "UnicodeDecodeError"

C4_Witness ==
    /\ Converted
    /\ platform = "win32"
    /\ last.arg = Bytes(<<195, 169>>)
    /\ last.outcome.value = Text(<<233>>)

\* C5: an all-ASCII byte string comes back as the text with the same
\* characters in the same order, on both platform branches.
C5_AsciiUnchanged ==
    (Converted /\ last.arg.type = "str" /\ IsAscii(last.arg.data))
    => /\ last.outcome.kind = "return"
       /\ last.outcome.value = Text(last.arg.data)

C5_Witness ==
    /\ Converted
    /\ platform = "linux2"
    /\ last.arg = Bytes(<<47, 97>>)
    /\ last.outcome.value = Text(<<47, 97>>)

\* C6 as stated: what get_user_config_dir, get_user_data_dir and
\* get_user_cache_dir return is None or a non-empty text.
C6_NonEmptyText ==
    (last.fn \in ConfigDataCache /\ last.outcome.kind = "return")
    => \/ last.outcome.value = None
       \/ /\ last.outcome.value.type = "unicode"
          /\ last.outcome.value.data # <<>>

\* C6: what the three getters return is None or a text, never a byte
\* string; for an empty GLib answer they return the empty text.
C6_NoneOrText ==
    last.fn \in ConfigDataCache
    => /\ last.outcome.kind = "return"
            => \/ last.outcome.value = None
               \/ last.outcome.value.type = "unicode"
       /\ last.arg = Bytes(<<>>) => last.outcome.kind = "return"
                                    /\ last.outcome.value = Text(<<>>)

C6_Witness ==
    /\ last.fn = "get_user_data_dir"
    /\ last.arg = Bytes(<<>>)
    /\ last.outcome.value = Text(<<>>)

\* The byte string is valid in the encoding filename_to_unicode applies.
Convertible(b) ==
    IF platform = "win32" THEN Utf8Valid(b.data) ELSE filename_to_utf8(b) # None

\* C7 as stated: get_user_special_dir never raises; it returns None when
\* GLib answers None and a text otherwise.
C7_NeverRaises ==
    last.fn = "get_user_special_dir"
    => /\ last.outcome.kind = "return"
       /\ last.arg = None => last.outcome.value = None
       /\ last.arg # None => last.outcome.value.type = "unicode"

\* C7: get_user_special_dir returns None when GLib answers None and a text
\* when GLib answers bytes valid in the applicable encoding; it raises
\* exactly when the bytes are not valid in it.
C7_RaisesOnlyOnBadBytes ==
    last.fn = "get_user_special_dir"
    => /\ last.arg = None => last.outcome = Return(None, 0)
       /\ (last.arg # None /\ Convertible(last.arg))
            => /\ last.outcome.kind = "return"
               /\ last.outcome.value.type = "unicode"
       /\ (last.arg # None /\ ~Convertible(last.arg))
            => last.outcome.kind = "raise"

C7_Witness ==
    /\ last.fn = "get_user_special_dir"
    /\ platform = "linux2"
    /\ fsenc = "ISO-8859-1"
    /\ last.arg = Bytes(<<233>>)
    /\ last.outcome.value = Text(<<233>>)

\* C8: a call of init_user_dir_caches that returns has called the config,
\* data and cache getters once each and get_user_special_dir once per
\* identifier 0..N_DIRECTORIES-1, and has logged each result, None included.
C8_OneLookupOneEntryEach ==
    pc = "returned"
    => /\ lookups = ExpectedLookups
       /\ Len(log) = 3 + N_DIRECTORIES
       /\ \A i \in 1..Len(log) :
            /\ log[i].fn = ExpectedLookups[i][1]
            /\ log[i].d_id = ExpectedLookups[i][2]
            /\ Answer(ExpectedLookups[i]) = None => log[i].value = None
            /\ Answer(ExpectedLookups[i]) # None => log[i].value.type = "unicode"

C8_Witness ==
    /\ pc = "returned"
    /\ \E i \in 1..Len(log) : log[i].value = None
    /\ \E i \in 1..Len(log) : log[i].value # None

\* C9: with unchanged platform answers, every finished call of
\* init_user_dir_caches made the same lookups, logged the same entries and
\* ended the same way as the first one, and the getters give what they gave
\* after the first call.
C9_SameAsFirstCall ==
    (pc \in {"returned", "raised"})
    => /\ first.set
       /\ first.end = pc
       /\ first.lookups = lookups
       /\ first.log = log
       /\ \A i \in 1..Len(ExpectedLookups) :
            first.getters[i] = Getter(ExpectedLookups[i])

C9_Witness ==
    /\ pc = "returned"
    /\ ncalls = 2
    /\ Len(log) = 3 + N_DIRECTORIES
    /\ first.log = log

\* C10: the lookups are made in the fixed order, each logged before the
\* next is made; a lookup that raises is the last one of its call, ends
\* the call, and is not logged, so the log is a prefix of the full one.
C10_OrderAndPropagation ==
    /\ IsPrefix(lookups, ExpectedLookups)
    /\ Len(log) <= Len(lookups)
    /\ Len(lookups) <= Len(log) + 1
    /\ \A i \in 1..Len(log) :
         /\ log[i].fn = ExpectedLookups[i][1]
         /\ log[i].d_id = ExpectedLookups[i][2]
         /\ log[i].value = Getter(ExpectedLookups[i]).value
    /\ \A i \in 1..Len(lookups) :
         Getter(lookups[i]).kind = "raise"
         => (i = Len(lookups) /\ pc = "raised" /\ Len(log) = i - 1)
    /\ pc = "raised"
         => (lookups # <<>> /\ Getter(lookups[Len(lookups)]).kind = "raise")
    /\ pc = "log" => Len(lookups) = Len(log) + 1
    /\ pc \in {"lookup", "returned"} => Len(lookups) = Len(log)

C10_Witness ==
    /\ pc = "raised"
    /\ Len(log) = 3
    /\ Len(lookups) = 4

====
